---- MODULE Spec2Model ----
(***************************************************************************)
(* Model of generate_catalog.py: the SeaTable static catalog generator.    *)
(* Strings whose characters the code inspects (URLs, paths, file names)    *)
(* are sequences of one-character strings.                                 *)
(***************************************************************************)
EXTENDS Integers, Sequences, FiniteSets, TLC

(***************************************************************************)
(* Bounds of the model.                                                    *)
(***************************************************************************)
MaxRows == 2
MaxCalls == 3
MaxFields == 1

(***************************************************************************)
(* Character strings.                                                      *)
(***************************************************************************)
LowerSeq == <<"a","b","c","d","e","f","g","h","i","j","k","l","m",
              "n","o","p","q","r","s","t","u","v","w","x","y","z">>
UpperSeq == <<"A","B","C","D","E","F","G","H","I","J","K","L","M",
              "N","O","P","Q","R","S","T","U","V","W","X","Y","Z">>
Lower == {LowerSeq[k] : k \in 1..26}
Upper == {UpperSeq[k] : k \in 1..26}
Digit == {"0","1","2","3","4","5","6","7","8","9"}

\* s[i:] of Python, with i a 1-based index
From(s, i) == SubSeq(s, i, Len(s))

\* s[:i-1] of Python, with i a 1-based index
Before(s, i) == SubSeq(s, 1, i - 1)

\* str.find(c, start) for a one-character c: the first index >= start, or 0
Find(s, c, start) ==
  LET hits == {k \in start..Len(s) : s[k] = c}
  IN IF hits = {} THEN 0 ELSE CHOOSE k \in hits : \A m \in hits : k <= m

\* str.rfind(c) for a one-character c: the last index, or 0
RFind(s, c) ==
  LET hits == {k \in 1..Len(s) : s[k] = c}
  IN IF hits = {} THEN 0 ELSE CHOOSE k \in hits : \A m \in hits : k >= m

\* str.find(sub): the first index where sub occurs, or 0
FindSub(s, sub) ==
  LET hits == {k \in 1..(Len(s) - Len(sub) + 1) : SubSeq(s, k, k + Len(sub) - 1) = sub}
  IN IF hits = {} THEN 0 ELSE CHOOSE k \in hits : \A m \in hits : k <= m

\* str.lower() on the letters of the model
LowerOf(c) ==
  IF c \in Upper THEN LowerSeq[CHOOSE k \in 1..26 : UpperSeq[k] = c] ELSE c

ToLower(s) == [k \in 1..Len(s) |-> LowerOf(s[k])]

(***************************************************************************)
(* urllib.parse.urlparse and unquote.                                      *)
(***************************************************************************)
SchemeChars == Lower \cup Upper \cup Digit \cup {"+", "-", "."}

UsesParams == { <<>>, <<"h","t","t","p">>, <<"h","t","t","p","s">>,
                <<"f","t","p">> }

\* urlsplit's scheme step: [scheme, rest]
SplitScheme(url) ==
  LET i == Find(url, ":", 1)
  IN IF /\ i > 1
        /\ url[1] \in Lower \cup Upper
        /\ \A k \in 1..(i - 1) : url[k] \in SchemeChars
     THEN [scheme |-> ToLower(Before(url, i)), rest |-> From(url, i + 1)]
     ELSE [scheme |-> <<>>, rest |-> url]

\* urlsplit's netloc step (_splitnetloc): [netloc, rest]
SplitNetloc(url) ==
  IF Len(url) >= 2 /\ url[1] = "/" /\ url[2] = "/"
  THEN LET ends == {k \in 3..Len(url) : url[k] \in {"/", "?", "#"}}
           e == IF ends = {} THEN Len(url) + 1
                ELSE CHOOSE k \in ends : \A m \in ends : k <= m
       IN [netloc |-> SubSeq(url, 3, e - 1), rest |-> From(url, e)]
  ELSE [netloc |-> <<>>, rest |-> url]

\* url.split(c, 1): [head, tail]
SplitOnce(url, c) ==
  LET i == Find(url, c, 1)
  IN IF i = 0 THEN [head |-> url, tail |-> <<>>]
     ELSE [head |-> Before(url, i), tail |-> From(url, i + 1)]

\* urllib.parse._splitparams: [head, tail]
SplitParams(url) ==
  LET slash == RFind(url, "/")
      i == IF slash > 0 THEN Find(url, ";", slash) ELSE Find(url, ";", 1)
  IN IF i = 0 THEN [head |-> url, tail |-> <<>>]
     ELSE [head |-> Before(url, i), tail |-> From(url, i + 1)]

urlparse(url) ==
  LET s == SplitScheme(url)
      n == SplitNetloc(s.rest)
      f == SplitOnce(n.rest, "#")
      q == SplitOnce(f.head, "?")
      p == IF s.scheme \in UsesParams /\ Find(q.head, ";", 1) > 0
           THEN SplitParams(q.head)
           ELSE [head |-> q.head, tail |-> <<>>]
  IN [scheme |-> s.scheme, netloc |-> n.netloc, path |-> p.head,
      params |-> p.tail, query |-> q.tail, fragment |-> f.tail]

HexDigits == Digit \cup {"a","b","c","d","e","f","A","B","C","D","E","F"}

HexVal(c) ==
  CASE c = "0" -> 0 [] c = "1" -> 1 [] c = "2" -> 2 [] c = "3" -> 3
    [] c = "4" -> 4 [] c = "5" -> 5 [] c = "6" -> 6 [] c = "7" -> 7
    [] c = "8" -> 8 [] c = "9" -> 9
    [] c \in {"a", "A"} -> 10 [] c \in {"b", "B"} -> 11
    [] c \in {"c", "C"} -> 12 [] c \in {"d", "D"} -> 13
    [] c \in {"e", "E"} -> 14 [] c \in {"f", "F"} -> 15

Printable == {" ", "#", "%", "+", "-", ".", "/", ":", ";", "=", "?",
              "0", "1", "2", "3", "4", "5", "6", "7", "8", "9",
              "G", "J", "P", "a", "b", "c", "d", "e", "f", "g", "h", "i",
              "j", "m", "n", "o", "p", "q", "s", "t", "x"}

\* the ASCII codes of the characters the model's strings are made of
AsciiCode ==
  [c \in Printable |->
    CASE c = " " -> 32 [] c = "#" -> 35 [] c = "%" -> 37 [] c = "+" -> 43
      [] c = "-" -> 45 [] c = "." -> 46 [] c = "/" -> 47
      [] c = "0" -> 48 [] c = "1" -> 49 [] c = "2" -> 50 [] c = "3" -> 51
      [] c = "4" -> 52 [] c = "5" -> 53 [] c = "6" -> 54 [] c = "7" -> 55
      [] c = "8" -> 56 [] c = "9" -> 57
      [] c = ":" -> 58 [] c = ";" -> 59 [] c = "=" -> 61 [] c = "?" -> 63
      [] c = "G" -> 71 [] c = "J" -> 74 [] c = "P" -> 80
      [] c = "a" -> 97 [] c = "b" -> 98 [] c = "c" -> 99 [] c = "d" -> 100
      [] c = "e" -> 101 [] c = "f" -> 102 [] c = "g" -> 103 [] c = "h" -> 104
      [] c = "i" -> 105 [] c = "j" -> 106 [] c = "m" -> 109 [] c = "n" -> 110
      [] c = "o" -> 111 [] c = "p" -> 112 [] c = "q" -> 113 [] c = "s" -> 115
      [] c = "t" -> 116 [] c = "x" -> 120]

\* ord(c); a character outside the table counts as one fixed code
Ord(c) == IF c \in Printable THEN AsciiCode[c] ELSE 127

\* chr(n) for the codes above; any other byte decodes to one replacement mark
Chr(n) ==
  IF \E c \in Printable : Ord(c) = n
  THEN CHOOSE c \in Printable : Ord(c) = n
  ELSE "<?>"

\* urllib.parse.unquote: every %XX becomes the character it encodes
RECURSIVE unquote(_)
unquote(s) ==
  IF s = <<>> THEN <<>>
  ELSE IF /\ s[1] = "%"
          /\ Len(s) >= 3
          /\ s[2] \in HexDigits
          /\ s[3] \in HexDigits
       THEN <<Chr(16 * HexVal(s[2]) + HexVal(s[3]))>> \o unquote(From(s, 4))
       ELSE <<s[1]>> \o unquote(Tail(s))

(***************************************************************************)
(* pathlib: Path(path).name and Path(name).suffix.                         *)
(***************************************************************************)
\* str.split("/") keeping only the parts pathlib keeps: neither "" nor "."
RECURSIVE PathParts(_)
PathParts(path) ==
  IF path = <<>> THEN <<>>
  ELSE LET sp == SplitOnce(path, "/")
           rest == IF Find(path, "/", 1) = 0 THEN <<>> ELSE PathParts(sp.tail)
       IN IF sp.head = <<>> \/ sp.head = <<".">>
          THEN rest
          ELSE <<sp.head>> \o rest

\* PurePath.name: the last part, "" when there is none
PathName(path) ==
  LET parts == PathParts(path)
  IN IF parts = <<>> THEN <<>> ELSE parts[Len(parts)]

\* PurePath.suffix of a bare name: from the last dot on, unless that dot is
\* the first or the last character
PathSuffix(name) ==
  LET i == RFind(name, ".")
  IN IF 1 < i /\ i < Len(name) THEN From(name, i) ELSE <<>>

(***************************************************************************)
(* hashlib.md5(...).hexdigest(): 32 hexadecimal characters.  The digest is *)
(* a stand-in for MD5: a polynomial over the character codes, spread over  *)
(* 32 digits.                                                              *)
(***************************************************************************)
HexChars == <<"0","1","2","3","4","5","6","7","8","9","a","b","c","d","e","f">>

DigestWidth == 32
DigestModulus == 16777216

RECURSIVE PolyHash(_, _)
PolyHash(s, h) ==
  IF s = <<>> THEN h
  ELSE PolyHash(Tail(s), (h * 31 + Ord(s[1])) % DigestModulus)

Pow16(k) == CASE k = 0 -> 1 [] k = 1 -> 16 [] k = 2 -> 256 [] k = 3 -> 4096
              [] k = 4 -> 65536 [] k = 5 -> 1048576

HexDigest(h) ==
  [k \in 1..DigestWidth |-> HexChars[((h \div Pow16((k - 1) % 6)) % 16) + 1]]

md5_hexdigest(s) == HexDigest(PolyHash(s, 7))

HashPrefixLen == 12

\* a variant that hashes the path as it stands in the URL, still encoded
get_image_filename_encoded(image_url) ==
  LET parsed == urlparse(image_url)
      path == unquote(parsed.path)
      original_filename == PathName(path)
      extension == PathSuffix(PathName(original_filename))
      path_hash == SubSeq(md5_hexdigest(parsed.path), 1, HashPrefixLen)
  IN path_hash \o extension

get_image_filename(image_url) ==
  LET parsed == urlparse(image_url)
      path == unquote(parsed.path)
      original_filename == PathName(path)
      extension == PathSuffix(PathName(original_filename))
      path_hash == SubSeq(md5_hexdigest(path), 1, HashPrefixLen)
  IN path_hash \o extension

(***************************************************************************)
(* Python dicts are functions on their key sets.                           *)
(***************************************************************************)
\* dict.get(key, default)
Get(d, key, default) == IF key \in DOMAIN d THEN d[key] ELSE default

\* the dict with exactly the entries of d, and key bound to value
Put(d, key, value) ==
  [k \in DOMAIN d \cup {key} |-> IF k = key THEN value ELSE d[k]]

EmptyDict == [k \in {} |-> ""]

(***************************************************************************)
(* Constants of the program.                                               *)
(***************************************************************************)
TABLE_NAME == "Works & Exhibits"

\* required, in the order load_config lists them
required == <<"view_name", "output_file", "header_logo", "header_title", "page_title">>

(***************************************************************************)
(* load_config.  A config file is absent, unparseable, or a JSON object.   *)
(***************************************************************************)
\* the subsequence of s whose elements satisfy membership in keep
RECURSIVE SelectNotIn(_, _)
SelectNotIn(s, keys) ==
  IF s = <<>> THEN <<>>
  ELSE (IF s[1] \in keys THEN <<>> ELSE <<s[1]>>) \o SelectNotIn(Tail(s), keys)

\* a variant that reports only the first missing field
load_config_first_missing(config_file) ==
  CASE config_file.kind = "absent" ->
         [ok |-> FALSE, config |-> EmptyDict, missing |-> <<>>,
          message |-> "Config file not found"]
    [] config_file.kind = "garbled" ->
         [ok |-> FALSE, config |-> EmptyDict, missing |-> <<>>,
          message |-> "Invalid JSON in config file"]
    [] OTHER ->
         LET config == Put(config_file.obj, "include_purchase_button",
                           Get(config_file.obj, "include_purchase_button", FALSE))
             missing == SelectNotIn(required, DOMAIN config)
         IN IF missing # <<>>
            THEN [ok |-> FALSE, config |-> EmptyDict, missing |-> <<missing[1]>>,
                  message |-> "Missing required config fields"]
            ELSE [ok |-> TRUE, config |-> config, missing |-> <<>>,
                  message |-> ""]

load_config(config_file) ==
  CASE config_file.kind = "absent" ->
         [ok |-> FALSE, config |-> EmptyDict, missing |-> <<>>,
          message |-> "Config file not found"]
    [] config_file.kind = "garbled" ->
         [ok |-> FALSE, config |-> EmptyDict, missing |-> <<>>,
          message |-> "Invalid JSON in config file"]
    [] OTHER ->
         LET config == Put(config_file.obj, "include_purchase_button",
                           Get(config_file.obj, "include_purchase_button", FALSE))
             missing == SelectNotIn(required, DOMAIN config)
         IN IF missing # <<>>
            THEN [ok |-> FALSE, config |-> EmptyDict, missing |-> missing,
                  message |-> "Missing required config fields"]
            ELSE [ok |-> TRUE, config |-> config, missing |-> <<>>,
                  message |-> ""]

(***************************************************************************)
(* find_image_column.  A column is [key, name, type]; None is "".          *)
(***************************************************************************)
None == ""

\* the first element of s satisfying the test, as a one-element or empty sequence
FirstWithKey(columns, key) ==
  LET hits == {k \in 1..Len(columns) : columns[k].key = key}
  IN IF hits = {} THEN <<>>
     ELSE <<columns[CHOOSE k \in hits : \A m \in hits : k <= m]>>

FirstWithType(columns, type) ==
  LET hits == {k \in 1..Len(columns) : columns[k].type = type}
  IN IF hits = {} THEN <<>>
     ELSE <<columns[CHOOSE k \in hits : \A m \in hits : k <= m]>>

find_image_column(columns) ==
  LET byKey == FirstWithKey(columns, "Jcpv")
      byType == FirstWithType(columns, "image")
  IN IF byKey # <<>> THEN byKey[1].key
     ELSE IF byType # <<>>
          THEN (IF byType[1].key # "" THEN byType[1].key ELSE byType[1].name)
          ELSE None

(***************************************************************************)
(* download_image.  files is the content of IMAGES_DIR; link and asset are *)
(* the remote service's answers to the two requests, should they be made.  *)
(* The result holds the requests issued, the files afterwards, the value   *)
(* returned and whether an exception left the function.                    *)
(***************************************************************************)
S_asset == <<"/", "a", "s", "s", "e", "t", "/">>

\* path.split('/asset/')[1], for a path that holds '/asset/'
AfterAsset(path) ==
  LET rest == From(path, FindSub(path, S_asset) + Len(S_asset))
      nxt == FindSub(rest, S_asset)
  IN IF nxt = 0 THEN rest ELSE Before(rest, nxt)

\* a variant that looks for the file where it never is
PathExists_elsewhere(output_path, files) == FALSE

\* output_path.exists()
PathExists(output_path, files) == output_path \in files

\* a variant that takes the part after the id for granted
HasRelativePart_unchecked(after_asset) == TRUE

\* len(path_parts) > 1, for path_parts = after_asset.split('/', 1)
HasRelativePart(after_asset) == Find(after_asset, "/", 1) # 0

\* a variant that never looks at the response's status
Raises_never(ok) == FALSE

\* response.raise_for_status(): an exception unless the response is a success
Raises(ok) == ~ok

download_image(image_url, output_path, files, link, asset) ==
  IF PathExists(output_path, files)
  THEN [ret |-> TRUE, status |-> "already exists", files |-> files,
        requests |-> <<>>, raised |-> FALSE]
  ELSE
    LET parsed == urlparse(image_url)
        path == unquote(parsed.path)
    IN IF FindSub(path, S_asset) = 0
       THEN [ret |-> FALSE, status |-> "invalid url format", files |-> files,
             requests |-> <<>>, raised |-> FALSE]
       ELSE
         LET after_asset == AfterAsset(path)
         IN IF ~HasRelativePart(after_asset)
            THEN [ret |-> FALSE, status |-> "could not parse path", files |-> files,
                  requests |-> <<>>, raised |-> FALSE]
            ELSE
              LET relative_path == SplitOnce(after_asset, "/").tail
                  r1 == [kind |-> "download-link", arg |-> relative_path, ok |-> link]
                  r2 == [kind |-> "asset", arg |-> relative_path, ok |-> (asset # "error")]
              IN IF Raises(link)
                 THEN [ret |-> FALSE, status |-> "raised", files |-> files,
                       requests |-> <<r1>>, raised |-> TRUE]
                 ELSE CASE Raises(asset # "error") ->
                             [ret |-> FALSE, status |-> "raised", files |-> files,
                              requests |-> <<r1, r2>>, raised |-> TRUE]
                        [] asset = "cut" ->
                             [ret |-> FALSE, status |-> "raised",
                              files |-> files \cup {output_path},
                              requests |-> <<r1, r2>>, raised |-> TRUE]
                        [] OTHER ->
                             [ret |-> TRUE, status |-> "downloaded",
                              files |-> files \cup {output_path},
                              requests |-> <<r1, r2>>, raised |-> FALSE]

(***************************************************************************)
(* Rows.  A row is a dict from column keys to values: a display field is a *)
(* string, an image field is a list of URLs or a single URL.               *)
(***************************************************************************)
EmptyList == [t |-> "list", v |-> <<>>]

ListOf(u) == [t |-> "list", v |-> <<u>>]

StrOf(u) == [t |-> "str", v |-> u]

\* Python's truth value of an image field: a list or a string is true unless empty
ImagesTruthy(images) == images.v # <<>>

\* images[0] if isinstance(images, list) else images
FirstImage(images) == IF images.t = "list" THEN images.v[1] ELSE images.v

\* a variant that tests "is not None" where the code tests the truth value
Truthy_not_none(value) == TRUE

\* Python's truth value of a display field
Truthy(value) == value # ""

(***************************************************************************)
(* urllib.parse.quote, on text kept as a sequence of pieces: every piece   *)
(* is replaced by its percent-encoded form.                                *)
(***************************************************************************)
quote(text) == [k \in 1..Len(text) |-> <<"pct", text[k]>>]

(***************************************************************************)
(* generate_html.  The document is its title, its two header images and    *)
(* its cards in document order; a card is the image it shows, the lines of *)
(* its artwork-title and artwork-meta blocks, and its links.               *)
(***************************************************************************)
\* a variant that adds the purchase link whatever the config says
PurchaseEnabled_always(config) == TRUE

\* config.get('include_purchase_button', False)
PurchaseEnabled(config) == Get(config, "include_purchase_button", FALSE)

MetaLine(cls, label, text) == [cls |-> cls, label |-> label, text |-> text]

If(cond, s) == IF cond THEN s ELSE <<>>

Card(row, image_column, config) ==
  LET images == Get(row, image_column, EmptyList)
      image_url == FirstImage(images)
      image_filename == get_image_filename(image_url)
      inventory == Get(row, "0000", "")
      title == Get(row, "gScu", "Untitled")
      series == Get(row, "z350", "")
      year == Get(row, "4UG7", "")
      edition == Get(row, "rXGj", "")
      image_size == Get(row, "gWXH", "")
      paper_size == Get(row, "2Te2", "")
      frame_size == Get(row, "6Ci3", "")
      edition_desc == Get(row, "3y0u", "")
      medium == Get(row, "Xe9e", "")
      price == Get(row, "upE4", "")
      meta ==
           If(Truthy(inventory), <<MetaLine("inv-number", "", <<inventory>>)>>)
        \o If(Truthy(series), <<MetaLine("", "Series:", <<series>>)>>)
        \o If(Truthy(year), <<MetaLine("", "Year:", <<year>>)>>)
        \o If(Truthy(edition), <<MetaLine("", "Edition:", <<edition>>)>>)
        \o If(Truthy(image_size), <<MetaLine("", "Image:", <<image_size, "\"">>)>>)
        \o If(Truthy(paper_size), <<MetaLine("", "Paper:", <<paper_size, "\"">>)>>)
        \o If(Truthy(frame_size), <<MetaLine("", "Frame:", <<frame_size, "\"">>)>>)
        \o If(Truthy(edition_desc), <<MetaLine("details", "", <<edition_desc>>)>>)
        \o If(Truthy(medium), <<MetaLine("", "Medium:", <<medium>>)>>)
        \o If(Truthy(price), <<MetaLine("price", "", <<"$", price>>)>>)
      email_body ==
           <<"I'm interested in the following artwork:\n\n">>
        \o <<"Title: ", title, "\n">>
        \o If(Truthy(inventory), <<"Inventory: ", inventory, "\n">>)
        \o If(Truthy(series), <<"Series: ", series, "\n">>)
        \o If(Truthy(year), <<"Year: ", year, "\n">>)
        \o If(Truthy(edition), <<"Edition: ", edition, "\n">>)
        \o If(Truthy(image_size), <<"Image Size: ", image_size, "\"\n">>)
        \o If(Truthy(paper_size), <<"Paper Size: ", paper_size, "\"\n">>)
        \o If(Truthy(frame_size), <<"Frame Size: ", frame_size, "\"\n">>)
        \o If(Truthy(edition_desc), <<"\nDetails: ", edition_desc, "\n">>)
        \o If(Truthy(medium), <<"Medium: ", medium, "\n">>)
        \o If(Truthy(price), <<"\nPrice: $", price, "\n">>)
      email_subject ==
           <<"Inquiry: ", title>>
        \o If(Truthy(inventory), <<" (", inventory, ")">>)
      mailto_link == [href |-> "mailto:jofowood@gmail.com",
                      query |-> <<[name |-> "subject", value |-> quote(email_subject)],
                                  [name |-> "body", value |-> quote(email_body)]>>,
                      text |-> "Inquire"]
      purchase_link == [href |-> "https://docs.google.com/forms/.../viewform",
                        query |-> <<[name |-> "entry.370646706",
                                     value |-> quote(<<title>>)],
                                    [name |-> "entry.673557102",
                                     value |-> quote(<<"https://jofowood.github.io/art/art/images/",
                                                       image_filename>>)]>>,
                        text |-> "Purchase Info"]
  IN [img |-> image_filename,
      alt |-> title,
      heading |-> <<MetaLine("artwork-title", "", <<title>>)>>,
      meta |-> meta,
      links |-> <<mailto_link>>
                \o If(PurchaseEnabled(config), <<purchase_link>>)]

\* a variant that puts every new card in front of the cards so far
RECURSIVE Cards_newest_first(_, _, _)
Cards_newest_first(rows, image_column, config) ==
  IF rows = <<>> THEN <<>>
  ELSE Cards_newest_first(Tail(rows), image_column, config)
       \o (IF ~ImagesTruthy(Get(rows[1], image_column, EmptyList))
           THEN <<>>
           ELSE <<Card(rows[1], image_column, config)>>)

RECURSIVE Cards(_, _, _)
Cards(rows, image_column, config) ==
  IF rows = <<>> THEN <<>>
  ELSE (IF ~ImagesTruthy(Get(rows[1], image_column, EmptyList))
        THEN <<>>
        ELSE <<Card(rows[1], image_column, config)>>)
       \o Cards(Tail(rows), image_column, config)

generate_html(rows, image_column, columns, header_logo, header_title, page_title, config) ==
  [page_title |-> page_title,
   header_logo |-> header_logo,
   header_title |-> header_title,
   cards |-> Cards(rows, image_column, config)]

(***************************************************************************)
(* Inputs: config files, remote metadata, image URLs and rows.             *)
(***************************************************************************)
RequiredSet == {required[k] : k \in 1..Len(required)}

SampleConfigValue(key) ==
  CASE key = "view_name" -> "Available Works"
    [] key = "output_file" -> "art/available.html"
    [] key = "header_logo" -> "logo.png"
    [] key = "header_title" -> "title.png"
    [] key = "page_title" -> "Available Works - Catalog"

ConfigObjects ==
  UNION {
    { [k \in K |-> SampleConfigValue(k)] }
    \cup { [k \in K \cup {"include_purchase_button"} |->
             IF k = "include_purchase_button" THEN b ELSE SampleConfigValue(k)]
           : b \in BOOLEAN }
    : K \in SUBSET RequiredSet }

ConfigFiles ==
  { [kind |-> "no argument", obj |-> EmptyDict],
    [kind |-> "absent", obj |-> EmptyDict],
    [kind |-> "garbled", obj |-> EmptyDict] }
  \cup { [kind |-> "json", obj |-> o] : o \in ConfigObjects }

Col(key, name, type) == [key |-> key, name |-> name, type |-> type]

TitleCol == Col("gScu", "Title", "text")

Metadatas ==
  { <<[name |-> "Contacts", columns |-> <<TitleCol>>],
      [name |-> TABLE_NAME, columns |-> <<Col("K1", "Photo", "image"),
                                          Col("Jcpv", "Image", "image")>>]>>,
    <<[name |-> TABLE_NAME, columns |-> <<TitleCol, Col("K1", "Photo", "image")>>]>>,
    <<[name |-> TABLE_NAME, columns |-> <<TitleCol>>]>>,
    <<[name |-> "Contacts", columns |-> <<TitleCol>>]>> }

S_https == <<"h", "t", "t", "p", "s", ":">>
S_http == <<"h", "t", "t", "p", ":">>
S_HTTP == <<"H", "T", "T", "P", ":">>
S_host == <<"/", "/", "h">>
S_host2 == <<"/", "/", "g", ".", "i", "o">>

\* raw (percent-encoded) paths
P_a_jpg == S_asset \o <<"i", "/", "a", ".", "j", "p", "g">>
P_a_jpg_dot == S_asset \o <<"i", "/", "a", "%", "2", "E", "j", "p", "g">>
P_a_jpg_slash == <<"/", "a", "s", "s", "e", "t", "%", "2", "f">>
                 \o <<"i", "%", "2", "F", "a", ".", "j", "p", "g">>
P_b_JPG == S_asset \o <<"i", "/", "m", "/", "b", ".", "J", "P", "G">>
P_noext == S_asset \o <<"i", "/", "a">>
P_hidden == S_asset \o <<"i", "/", ".", "a">>
P_enddot == S_asset \o <<"i", "/", "a", ".">>
P_dir == S_asset \o <<"i", "/", "a", ".", "j", "p", "g", "/">>
P_twodots == S_asset \o <<"i", "/", "a", ".", "t", ".", "g">>
P_noasset == <<"/", "x", "/", "a", ".", "j", "p", "g">>
P_norel == <<"/", "a", "s", "s", "e", "t", "/", "i">>
P_emptyrel == S_asset \o <<"i", "/">>
P_twice == S_asset \o <<"i">> \o S_asset \o <<"a", ".", "j", "p", "g">>

RawPaths == {P_a_jpg, P_a_jpg_dot, P_a_jpg_slash, P_b_JPG, P_noext, P_hidden,
             P_enddot, P_dir, P_twodots, P_noasset, P_norel, P_emptyrel, P_twice}

UrlHeads == {S_https \o S_host, S_http \o S_host2, S_HTTP \o S_host, S_host, <<>>}

UrlTails == {<<>>, <<"?", "q", "=", "1">>, <<"#", "f">>, <<";", "p", "=", "1">>}

AllUrls == {h \o p \o t : h \in UrlHeads, p \in RawPaths, t \in UrlTails}

\* the URLs the rows of a run hold
U_a == S_https \o S_host \o P_a_jpg
U_a_other == S_http \o S_host2 \o P_a_jpg_dot \o <<"?", "q", "=", "1">>
U_noasset == S_https \o S_host \o P_noasset
U_norel == S_https \o S_host \o P_norel

RunUrls == {U_a, U_a_other, U_noasset, U_norel}

TitleOnly == [k \in {"gScu"} |-> "Dawn"]

\* the rows a view may return in a run
RunRows ==
  { TitleOnly,
    Put(TitleOnly, "Jcpv", EmptyList),
    Put(TitleOnly, "Jcpv", ListOf(U_a)),
    Put(EmptyDict, "Jcpv", ListOf(U_a_other)),
    Put(TitleOnly, "Jcpv", ListOf(U_noasset)),
    Put(TitleOnly, "Jcpv", StrOf(U_norel)) }

\* what IMAGES_DIR may hold before a run: what earlier runs left there
StartCaches == { {}, {get_image_filename(U_a)} }

\* the display fields: column key, and a value a row may hold there
DisplayKeys == <<"0000", "gScu", "z350", "4UG7", "rXGj", "gWXH", "2Te2", "6Ci3",
                 "3y0u", "Xe9e", "upE4">>

DisplayKeySet == {DisplayKeys[k] : k \in 1..Len(DisplayKeys)}

SampleValue(key) ==
  CASE key = "0000" -> "A-1"
    [] key = "gScu" -> "Dawn"
    [] key = "z350" -> "Horizons"
    [] key = "4UG7" -> "2024"
    [] key = "rXGj" -> "3/10"
    [] key = "gWXH" -> "8x10"
    [] key = "2Te2" -> "11x14"
    [] key = "6Ci3" -> "16x20"
    [] key = "3y0u" -> "Edition of 10"
    [] key = "Xe9e" -> "Pigment print"
    [] key = "upE4" -> "500"

\* rows for the renderer: every row has an image field or none; one row at
\* most also holds display fields: none of them or all of them, but for up
\* to MaxFields fields that are set, emptied or removed
FullRow == [k \in DisplayKeySet |-> SampleValue(k)]

FieldBases == {EmptyDict, FullRow}

NoSetting == [key |-> "", value |-> ""]

Settings == {NoSetting}
            \cup {[key |-> k, value |-> v] : k \in DisplayKeySet, v \in {"", "(absent)"}}
            \cup {[key |-> k, value |-> SampleValue(k)] : k \in DisplayKeySet}

\* the first setting of st for key, if any
SettingFor(st, key) ==
  LET hits == {k \in 1..Len(st) : st[k].key = key}
  IN IF hits = {} THEN NoSetting
     ELSE st[CHOOSE k \in hits : \A m \in hits : k <= m]

\* base, with the fields of st set, emptied or removed
FieldsOf(base, st) ==
  LET keys == {k \in DisplayKeySet :
                 IF SettingFor(st, k) = NoSetting
                 THEN k \in DOMAIN base
                 ELSE SettingFor(st, k).value # "(absent)"}
  IN [key \in keys |->
        IF SettingFor(st, key) = NoSetting THEN base[key] ELSE SettingFor(st, key).value]

NoImage == [t |-> "absent", v |-> <<>>]

RenderImages == {NoImage, EmptyList, ListOf(U_a)}

RenderRow(image, fields) ==
  IF image = NoImage THEN fields ELSE Put(fields, "Jcpv", image)

LoadedConfigs ==
  { load_config(f).config : f \in {g \in ConfigFiles : load_config(g).ok} }

SeqsUpTo(S, n) == UNION { [1..m -> S] : m \in 0..n }

(***************************************************************************)
(* State.                                                                  *)
(*   pc            where main() is                                         *)
(*   cfgFile       the file sys.argv[1] names (or no argument at all)      *)
(*   config        what load_config returned                               *)
(*   columns       table["columns"] of the selected table                  *)
(*   image_column  what find_image_column returned                         *)
(*   rows, idx     the rows of the view, and the download loop's position  *)
(*   url, filename image_url and image_filename of the loop                *)
(*   cache         the files in IMAGES_DIR                                 *)
(*   reqs          the remote requests the run has issued, in order        *)
(*   html          what generate_html returned, in a list of at most one   *)
(*   written       whether the run wrote output_file                       *)
(*   exitCode      the process's exit status, once pc = "done"             *)
(*   message       the last error the run printed                          *)
(*   calls         how many calls of download_image have been made         *)
(*   called        the URLs download_image has been called with            *)
(*   returned      the URLs for which a call of download_image returned    *)
(*                 True                                                    *)
(*   last          the most recent call of download_image                  *)
(***************************************************************************)
VARIABLES pc, cfgFile, config, columns, image_column, rows, idx,
          url, filename, cache, reqs, html, written, exitCode, message,
          calls, called, returned, last

vars == <<pc, cfgFile, config, columns, image_column, rows, idx,
          url, filename, cache, reqs, html, written, exitCode, message,
          calls, called, returned, last>>

NoCall == [url |-> <<>>, status |-> "none", net |-> 0, before |-> {}, at |-> 0,
           again |-> FALSE, afterTrue |-> FALSE]

NoMessage == [text |-> "", fields |-> <<>>]

NoFile == [kind |-> "no argument", obj |-> EmptyDict]

\* the values the variables have before main() has done anything
FreshData ==
  /\ config = EmptyDict
  /\ image_column = None
  /\ rows = <<>>

FreshRun ==
  /\ columns = <<>>
  /\ idx = 1
  /\ reqs = <<>>
  /\ html = <<>>
  /\ written = FALSE
  /\ exitCode = 0
  /\ message = NoMessage

FreshLoop ==
  /\ url = <<>>
  /\ filename = <<>>

FreshHistory ==
  /\ calls = 0
  /\ called = {}
  /\ returned = {}
  /\ last = NoCall

Init ==
  /\ pc = "start"
  /\ cfgFile \in ConfigFiles
  /\ cache \in StartCaches
  /\ FreshData /\ FreshRun /\ FreshLoop /\ FreshHistory

Request(kind, ok) == [kind |-> kind, arg |-> <<>>, ok |-> ok]

\* the process ends: an uncaught exception and sys.exit(1) give status 1
Exit(code, text) ==
  /\ pc' = "done"
  /\ exitCode' = code
  /\ message' = [text |-> text, fields |-> <<>>]

\* main, lines 441-466: the argument check and load_config
LoadConfig ==
  /\ pc = "start"
  /\ IF cfgFile.kind = "no argument"
     THEN /\ Exit(1, "Usage: python3 generate_catalog.py <config_file.json>")
          /\ UNCHANGED config
     ELSE LET r == load_config(cfgFile)
          IN IF r.ok
             THEN /\ config' = r.config
                  /\ pc' = "authenticate"
                  /\ UNCHANGED <<exitCode, message>>
             ELSE /\ pc' = "done"
                  /\ exitCode' = 1
                  /\ message' = [text |-> r.message, fields |-> r.missing]
                  /\ UNCHANGED config
  /\ UNCHANGED <<cfgFile, columns, image_column, rows, idx, url, filename,
                 cache, reqs, html, written, calls, called, returned, last>>

\* main, lines 468-471: get_base_token
Authenticate ==
  /\ pc = "authenticate"
  /\ \E ok \in BOOLEAN :
       /\ reqs' = Append(reqs, Request("app-access-token", ok))
       /\ IF Raises(ok)
          THEN Exit(1, "HTTPError")
          ELSE pc' = "metadata" /\ UNCHANGED <<exitCode, message>>
  /\ UNCHANGED <<cfgFile, config, columns, image_column, rows, idx, url,
                 filename, cache, html, written, calls, called, returned, last>>

\* main, lines 473-490: get_metadata, the table and its image column
LoadMetadata ==
  /\ pc = "metadata"
  /\ \E ok \in BOOLEAN, tables \in Metadatas :
       /\ reqs' = Append(reqs, Request("metadata", ok))
       /\ IF Raises(ok)
          THEN Exit(1, "HTTPError") /\ UNCHANGED <<columns, image_column>>
          ELSE LET hits == {k \in 1..Len(tables) : tables[k].name = TABLE_NAME}
               IN IF hits = {}
                  THEN Exit(1, "StopIteration") /\ UNCHANGED <<columns, image_column>>
                  ELSE LET table == tables[CHOOSE k \in hits : \A m \in hits : k <= m]
                       IN /\ columns' = table.columns
                          /\ image_column' = find_image_column(table.columns)
                          /\ IF image_column' = None
                             THEN Exit(0, "No image column found!")
                             ELSE pc' = "rows" /\ UNCHANGED <<exitCode, message>>
  /\ UNCHANGED <<cfgFile, config, rows, idx, url, filename, cache, html,
                 written, calls, called, returned, last>>

\* main, lines 492-495: get_rows
LoadRows ==
  /\ pc = "rows"
  /\ \E ok \in BOOLEAN, rs \in SeqsUpTo(RunRows, MaxRows) :
       /\ reqs' = Append(reqs, Request("rows", ok))
       /\ IF Raises(ok)
          THEN Exit(1, "HTTPError") /\ UNCHANGED rows
          ELSE /\ rows' = rs
               /\ pc' = "download"
               /\ UNCHANGED <<exitCode, message>>
  /\ UNCHANGED <<cfgFile, config, columns, image_column, idx, url,
                 filename, cache, html, written, calls, called, returned, last>>

\* the record of one call of download_image, r being what it did
RecordCall(image_url, image_filename, r) ==
  /\ url' = image_url
  /\ filename' = image_filename
  /\ cache' = r.files
  /\ reqs' = reqs \o r.requests
  /\ calls' = calls + 1
  /\ called' = called \cup {image_url}
  /\ returned' = IF r.ret THEN returned \cup {image_url} ELSE returned
  /\ last' = [url |-> image_url, status |-> r.status,
              net |-> Len(r.requests), before |-> cache, at |-> idx,
              again |-> image_url \in called,
              afterTrue |-> image_url \in returned]

\* main, lines 500-512: one pass of the download loop
DownloadRow ==
  /\ pc = "download"
  /\ idx <= Len(rows)
  /\ LET images == Get(rows[idx], image_column, EmptyList)
     IN IF ~ImagesTruthy(images)
        THEN /\ idx' = idx + 1
             /\ UNCHANGED <<pc, url, filename, cache, reqs, exitCode, message,
                            calls, called, returned, last>>
        ELSE LET image_url == FirstImage(images)
                 image_filename == get_image_filename(image_url)
             IN \E link \in BOOLEAN, asset \in {"ok", "error", "cut"} :
                  LET r == download_image(image_url, image_filename, cache, link, asset)
                  IN /\ RecordCall(image_url, image_filename, r)
                     /\ IF r.raised
                        THEN Exit(1, "HTTPError") /\ UNCHANGED idx
                        ELSE idx' = idx + 1 /\ UNCHANGED <<pc, exitCode, message>>
  /\ UNCHANGED <<cfgFile, config, columns, image_column, rows, html, written>>

\* main, lines 516-526: generate_html and the write of output_file
GenerateCatalog ==
  /\ pc = "download"
  /\ idx > Len(rows)
  /\ html' = <<generate_html(rows, image_column, columns, config["header_logo"],
                             config["header_title"], config["page_title"], config)>>
  /\ written' = TRUE
  /\ Exit(0, "")
  /\ UNCHANGED <<cfgFile, config, columns, image_column, rows, idx, url,
                 filename, cache, reqs, calls, called, returned, last>>

Next ==
  \/ LoadConfig
  \/ Authenticate
  \/ LoadMetadata
  \/ LoadRows
  \/ DownloadRow
  \/ GenerateCatalog

Spec == Init /\ [][Next]_vars

(***************************************************************************)
(* download_image called again and again on one cache directory, as the    *)
(* runs of the tool that share IMAGES_DIR do.                              *)
(***************************************************************************)
CallUrls == RunUrls \cup {S_https \o S_host \o P_b_JPG}

InitCache ==
  /\ pc = "calls"
  /\ cfgFile = NoFile
  /\ cache = {}
  /\ FreshData /\ FreshRun /\ FreshLoop /\ FreshHistory

Download ==
  /\ pc = "calls"
  /\ calls < MaxCalls
  /\ \E u \in CallUrls :
       LET image_filename == get_image_filename(u)
       IN \E link \in BOOLEAN, asset \in {"ok", "error", "cut"} :
            RecordCall(u, image_filename,
                       download_image(u, image_filename, cache, link, asset))
  /\ UNCHANGED <<pc, cfgFile, config, columns, image_column, rows, idx, html,
                 written, exitCode, message>>

SpecCache == InitCache /\ [][Download]_vars

(***************************************************************************)
(* get_image_filename applied to a URL.                                    *)
(***************************************************************************)
InitFilename ==
  /\ pc = "filename"
  /\ cfgFile = NoFile
  /\ cache = {}
  /\ FreshData /\ FreshRun /\ FreshHistory
  /\ url \in AllUrls
  /\ filename = <<>>

DeriveFilename ==
  /\ pc = "filename"
  /\ filename' = get_image_filename(url)
  /\ pc' = "done"
  /\ UNCHANGED <<cfgFile, config, columns, image_column, rows, idx, url, cache,
                 reqs, html, written, exitCode, message, calls, called,
                 returned, last>>

SpecFilename == InitFilename /\ [][DeriveFilename]_vars

(***************************************************************************)
(* generate_html applied to rows and a loaded config.                      *)
(***************************************************************************)
InitRender ==
  /\ pc = "render"
  /\ cfgFile = NoFile
  /\ cache = {}
  /\ FreshRun /\ FreshLoop /\ FreshHistory
  /\ config \in LoadedConfigs
  /\ image_column = "Jcpv"
  /\ \E n \in 0..MaxRows :
       \E img \in [1..n -> RenderImages], who \in 0..n, base \in FieldBases,
          st \in [1..MaxFields -> Settings] :
         rows = [i \in 1..n |->
                   RenderRow(img[i], IF i = who THEN FieldsOf(base, st) ELSE EmptyDict)]

Render ==
  /\ pc = "render"
  /\ html' = <<generate_html(rows, image_column, columns, config["header_logo"],
                             config["header_title"], config["page_title"], config)>>
  /\ pc' = "done"
  /\ UNCHANGED <<cfgFile, config, columns, image_column, rows, idx, url,
                 filename, cache, reqs, written, exitCode, message, calls,
                 called, returned, last>>

SpecRender == InitRender /\ [][Render]_vars
(***************************************************************************)
(* Properties.                                                             *)
(***************************************************************************)
DecodedPath(u) == unquote(urlparse(u).path)

\* the rows that have a non-empty image field, and the row of the k-th card
Qualifying ==
  {i \in 1..Len(rows) : /\ image_column \in DOMAIN rows[i]
                        /\ rows[i][image_column].v # <<>>}

RowOfCard(k) ==
  CHOOSE i \in Qualifying : Cardinality({j \in Qualifying : j < i}) = k - 1

Rendered == pc = "done" /\ html # <<>>

CardsOut == html[1].cards

C2_FailedRequestEndsRun ==
  \A k \in 1..Len(reqs) :
    ~reqs[k].ok =>
      /\ k = Len(reqs)
      /\ pc = "done"
      /\ exitCode # 0
      /\ ~written
      /\ html = <<>>

C2_Witness ==
  /\ Len(reqs) > 3
  /\ ~reqs[Len(reqs)].ok
  /\ reqs[Len(reqs)].kind = "asset"
  /\ idx < Len(rows)

\* the selected table was read and none of its columns is the image column
NoImageColumnFound ==
  /\ columns # <<>>
  /\ \A k \in 1..Len(columns) :
       columns[k].key # "Jcpv" /\ columns[k].type # "image"

\* C3: when the selected table has no image column the run ends with a
\* non-zero exit status and a message, having fetched no rows and written
\* no catalog.
C3_NoImageColumnIsFatal ==
  NoImageColumnFound =>
    /\ pc = "done"
    /\ exitCode # 0
    /\ message.text # ""
    /\ \A k \in 1..Len(reqs) : reqs[k].kind # "rows"
    /\ ~written

\* a path of the form .../asset/<id>/<relative location>
HasAssetForm(path) ==
  \E i \in 1..(Len(path) - Len(S_asset)) :
    /\ SubSeq(path, i, i + Len(S_asset) - 1) = S_asset
    /\ \E j \in (i + Len(S_asset))..Len(path) : path[j] = "/"

\* C4: when the image of the latest call of download_image has a path that
\* is not of the form .../asset/<id>/<relative location> and was not in the
\* cache, the call failed without a request and without writing a file, the
\* loop has moved past that row, and the run goes on or has ended with the
\* catalog written.
C4_UnrecognizedPathSkipsImageOnly ==
  (/\ last.status # "none"
   /\ ~HasAssetForm(DecodedPath(last.url))
   /\ get_image_filename(last.url) \notin last.before)
  =>
    /\ last.status \in {"invalid url format", "could not parse path"}
    /\ last.net = 0
    /\ cache = last.before
    /\ \A k \in 1..Len(reqs) : reqs[k].ok
    /\ idx > last.at
    /\ \/ pc = "download" /\ ~written
       \/ /\ pc = "done"
          /\ exitCode = 0
          /\ written
          /\ idx > Len(rows)

C4_Witness ==
  /\ pc = "done"
  /\ written
  /\ Len(rows) = 2
  /\ rows[1] = Put(TitleOnly, "Jcpv", ListOf(U_noasset))
  /\ get_image_filename(U_noasset) \notin cache
  /\ last.url = U_a
  /\ last.status = "downloaded"
  /\ last.at = 2

\* C5: a config that lacks required fields makes the run end with an error
\* that names exactly the missing fields; a config with all five loads, with
\* include_purchase_button false when absent and as given otherwise.
C5_ConfigValidation ==
  (pc # "start" /\ cfgFile.kind = "json") =>
    LET given == cfgFile.obj
        lacking == RequiredSet \ DOMAIN given
    IN IF lacking # {}
       THEN /\ pc = "done"
            /\ exitCode # 0
            /\ {message.fields[k] : k \in 1..Len(message.fields)} = lacking
            /\ Len(message.fields) = Cardinality(lacking)
            /\ reqs = <<>>
       ELSE /\ message.fields = <<>>
            /\ DOMAIN config = RequiredSet \cup {"include_purchase_button"}
            /\ \A k \in RequiredSet : config[k] = given[k]
            /\ config["include_purchase_button"] =
                 (IF "include_purchase_button" \in DOMAIN given
                  THEN given["include_purchase_button"]
                  ELSE FALSE)

C5_Witness ==
  /\ pc = "done"
  /\ DOMAIN cfgFile.obj = {"view_name"}
  /\ cfgFile.kind = "json"
  /\ message.fields = <<"output_file", "header_logo", "header_title", "page_title">>

\* C6: the rendered document has exactly one card for every row with a
\* non-empty image field and none for the other rows, and the cards stand in
\* the order of their rows.
C6_OneCardPerImageRowInOrder ==
  Rendered =>
    /\ Len(CardsOut) = Cardinality(Qualifying)
    /\ \A k \in 1..Len(CardsOut) :
         CardsOut[k] = Card(rows[RowOfCard(k)], image_column, config)

C6_Witness ==
  /\ Rendered
  /\ Len(rows) = 2
  /\ Len(CardsOut) = 2
  /\ CardsOut[1].heading # CardsOut[2].heading

\* where a display field shows in a card, and in the inquiry email
CardMark(key) ==
  CASE key = "0000" -> [cls |-> "inv-number", label |-> ""]
    [] key = "gScu" -> [cls |-> "artwork-title", label |-> ""]
    [] key = "z350" -> [cls |-> "", label |-> "Series:"]
    [] key = "4UG7" -> [cls |-> "", label |-> "Year:"]
    [] key = "rXGj" -> [cls |-> "", label |-> "Edition:"]
    [] key = "gWXH" -> [cls |-> "", label |-> "Image:"]
    [] key = "2Te2" -> [cls |-> "", label |-> "Paper:"]
    [] key = "6Ci3" -> [cls |-> "", label |-> "Frame:"]
    [] key = "3y0u" -> [cls |-> "details", label |-> ""]
    [] key = "Xe9e" -> [cls |-> "", label |-> "Medium:"]
    [] key = "upE4" -> [cls |-> "price", label |-> ""]

EmailLabel(key) ==
  CASE key = "0000" -> "Inventory: "
    [] key = "gScu" -> "Title: "
    [] key = "z350" -> "Series: "
    [] key = "4UG7" -> "Year: "
    [] key = "rXGj" -> "Edition: "
    [] key = "gWXH" -> "Image Size: "
    [] key = "2Te2" -> "Paper Size: "
    [] key = "6Ci3" -> "Frame Size: "
    [] key = "3y0u" -> "\nDetails: "
    [] key = "Xe9e" -> "Medium: "
    [] key = "upE4" -> "\nPrice: $"

\* the text a percent-encoded value stands for
Decoded(value) == [k \in 1..Len(value) |-> value[k][2]]

CardLines(card) == card.heading \o card.meta

CardLinesFor(card, key) ==
  {k \in 1..Len(CardLines(card)) :
     /\ CardLines(card)[k].cls = CardMark(key).cls
     /\ CardLines(card)[k].label = CardMark(key).label}

MailtoLinks(card) ==
  {k \in 1..Len(card.links) : card.links[k].href = "mailto:jofowood@gmail.com"}

PurchaseLinks(card) ==
  {k \in 1..Len(card.links) : card.links[k].text = "Purchase Info"}

\* the value of the query parameter name of a link
Param(link, name) ==
  link.query[CHOOSE k \in 1..Len(link.query) : link.query[k].name = name].value

EmailBody(card) ==
  Decoded(Param(card.links[CHOOSE k \in MailtoLinks(card) : TRUE], "body"))

EmailSubject(card) ==
  Decoded(Param(card.links[CHOOSE k \in MailtoLinks(card) : TRUE], "subject"))

EmailLinesFor(card, key) ==
  {k \in 1..Len(EmailBody(card)) : EmailBody(card)[k] = EmailLabel(key)}

C8_InquiryAndPurchaseLinks ==
  Rendered =>
    \A k \in 1..Len(CardsOut) :
      LET row == rows[RowOfCard(k)]
          card == CardsOut[k]
          title == IF "gScu" \in DOMAIN row THEN row["gScu"] ELSE "Untitled"
          inventory == Get(row, "0000", "")
      IN /\ Cardinality(MailtoLinks(card)) = 1
         /\ EmailSubject(card) =
              (IF inventory # ""
               THEN <<"Inquiry: ", title, " (", inventory, ")">>
               ELSE <<"Inquiry: ", title>>)
         /\ Cardinality(PurchaseLinks(card)) =
              (IF config["include_purchase_button"] THEN 1 ELSE 0)
         /\ MailtoLinks(card) \cap PurchaseLinks(card) = {}
         /\ Len(card.links) = (IF config["include_purchase_button"] THEN 2 ELSE 1)

C8_Witness ==
  /\ Rendered
  /\ ~config["include_purchase_button"]
  /\ Len(CardsOut) = 1
  /\ EmailSubject(CardsOut[1]) = <<"Inquiry: ", "Dawn", " (", "A-1", ")">>
  /\ Len(CardsOut[1].links) = 1

\* the extension of a path: what follows the last dot of its last segment
\* (the segments "" and "." not counted), the dot included, unless that dot
\* starts or ends the segment
Segments(path) ==
  {sp \in (1..Len(path)) \X (1..Len(path)) :
     /\ sp[1] <= sp[2]
     /\ \A k \in sp[1]..sp[2] : path[k] # "/"
     /\ (sp[1] = 1 \/ path[sp[1] - 1] = "/")
     /\ (sp[2] = Len(path) \/ path[sp[2] + 1] = "/")
     /\ SubSeq(path, sp[1], sp[2]) # <<".">>}

ExtensionOf(path) ==
  IF Segments(path) = {} THEN <<>>
  ELSE LET sp == CHOOSE a \in Segments(path) : \A b \in Segments(path) : b[1] <= a[1]
           dots == {k \in (sp[1] + 1)..(sp[2] - 1) : path[k] = "."}
       IN IF dots = {} THEN <<>>
          ELSE SubSeq(path, CHOOSE k \in dots : \A m \in dots : m <= k, sp[2])

\* C9: the file name derived from a URL is the one derived from every URL
\* with the same decoded path; it is 12 hexadecimal characters followed by
\* the extension of the decoded path, and by nothing when that has none.
C9_FilenameFromDecodedPath ==
  (pc = "done" /\ url # <<>>) =>
    /\ \A u \in AllUrls :
         DecodedPath(u) = DecodedPath(url) => get_image_filename(u) = filename
    /\ Len(filename) >= 12
    /\ \A k \in 1..12 : filename[k] \in Digit \cup {"a", "b", "c", "d", "e", "f"}
    /\ SubSeq(filename, 13, Len(filename)) = ExtensionOf(DecodedPath(url))

C9_Witness ==
  /\ pc = "done"
  /\ url = U_a_other
  /\ filename = get_image_filename(U_a)
  /\ SubSeq(filename, 13, Len(filename)) = <<".", "j", "p", "g">>

\* C10: in a run that wrote a catalog, the image of every card is a file of
\* the cache directory.
C10_EveryCardImageCached ==
  (pc = "done" /\ written) =>
    \A k \in 1..Len(CardsOut) : CardsOut[k].img \in cache
====
